---- MODULE Spec2Model ----
(***************************************************************************)
(* State-machine model of the Manifold trading bot (mikhailtal_trader):    *)
(* ManifoldAPIClient's self-throttling gate, LLMStrategy's reply parsing,  *)
(* the Kelly stake sizer and ManifoldBot's polling loop.                   *)
(*                                                                         *)
(* Units.  Probabilities and confidences are percentages (the code holds   *)
(* the float P/100); stakes are exact rationals [num, den] with den > 0    *)
(* (the code holds the nearest float); the clock is in seconds and a       *)
(* market's closeTime in milliseconds, as in the code.                     *)
(***************************************************************************)
EXTENDS Integers, Sequences, FiniteSets

(* ------------------------------ bounds -------------------------------- *)
NumMarkets    == 1      \* market identifiers 1..NumMarkets
MaxListing    == 2      \* longest listing the provider returns
MaxStrategies == 2      \* most strategies in a drawn decision trial
MaxRegistered == 1      \* most strategies registered before run
MaxCycles     == 2      \* poll cycles explored when the limit does not stop run
BurstSize     == 10     \* the caller's clock moves only between bursts of this many gate calls
MaxTime       == 62     \* the caller of the gate stops once the clock passes this

(* ------------------------- program constants -------------------------- *)
Ceiling       == 450    \* soft ceiling of the gate
Window        == 60     \* seconds per rate-limit window
Budget        == 500    \* upstream requests per minute
PollInterval  == 300    \* poll_interval default
MaxBetAmount  == 100    \* max_bet_amount default
MinConfidence == 60     \* min_confidence default, percent
Bankroll      == 1000   \* notional bankroll passed by _place_bet
KellyPct      == 25     \* fraction = 0.25
MinBet        == 1      \* stake floor in _place_bet
DivergencePct == 5      \* prob_diff >= 0.05
ConfidencePct == 60     \* confidence >= 0.6 baked into LLMStrategy
CloseAtMs     == 0      \* a close timestamp: the construction time, in ms
Cooldown      == 60     \* pause after an exception caught in run

VARIABLES
    \* ManifoldAPIClient
    request_count,        \* self.request_count
    last_request_time,    \* self.last_request_time
    now,                  \* time.time(), seconds
    \* ManifoldBot configuration and state
    dry_run,              \* self.dry_run
    min_confidence,       \* self.min_confidence, percent
    poll_interval,        \* self.poll_interval, seconds
    strategies,           \* self.strategies, sequence of provider names
    processed_markets,    \* self.processed_markets
    \* run()
    pc,                   \* position of the process in run/_check_markets
    max_iterations,       \* argument of run: <<>> is None, <<n>> is n
    iteration,            \* local of run
    new_markets,          \* identifiers of the rest of new_markets, in fetch order
    \* one market's decision pipeline, applied to drawn inputs
    trial,                \* the inputs
    decision,             \* what the pipeline made of them
    \* one call of a pure operation (analyze, calculate_kelly_bet)
    call,                 \* the operation and its arguments
    result,               \* what the call came to
    \* history (observations of what the program did)
    reqLog,               \* requests issued in the last Window seconds, by time
    gate,                 \* what the last gate call did
    analyzeCount,         \* per identifier: dispatches to the strategies
    added,                \* identifiers put in ProcessedSet in this cycle
    started,              \* identifiers whose processing started in this cycle
    filtered,             \* identifiers the filter of this cycle left out
    submitCount,          \* per identifier: calls of client.place_bet
    simulated,            \* per identifier: "[DRY RUN] Would bet" lines logged
    cycle_error,          \* what _check_markets last caught: "none", "fetch", "process"
    pause,                \* seconds of the last pause run completed (0: none yet)
    interrupted_at,       \* where a KeyboardInterrupt arrived ("none": it did not)
    caller                \* who called run: "none" (nobody yet), "main"
                          \* (run_bot.main), "direct" (any other caller)

clientVars == <<request_count, last_request_time, now, reqLog, gate>>
configVars == <<dry_run, min_confidence, poll_interval, strategies, caller>>
histVars   == <<analyzeCount, added, started, filtered, submitCount, simulated,
                cycle_error, pause, interrupted_at>>
botVars    == <<configVars, processed_markets, pc, max_iterations, iteration,
                new_markets, histVars>>
trialVars  == <<trial, decision, call, result>>
vars       == <<clientVars, botVars, trialVars>>

MarketIds == 1..NumMarkets

(* ---------------------- ManifoldAPIClient._rate_limit ----------------- *)
\* variant: the ceiling test is >= instead of >
RateLimit_AtCeiling(c, l, t) ==
    LET c1 == c + 1
        reset == t - l > Window
        c2 == IF reset THEN 0 ELSE c1
        l2 == IF reset THEN t ELSE l
    IN  IF c2 >= Ceiling
        THEN [count |-> 0, lastT |-> t + (Window - (t - l2)),
              now |-> t + (Window - (t - l2)), slept |-> Window - (t - l2)]
        ELSE [count |-> c2, lastT |-> l2, now |-> t, slept |-> -1]

\* The gate as a function of (request_count, last_request_time, time.time()).
\* slept = -1 when time.sleep is not called, else the argument of time.sleep.
RateLimit(c, l, t) ==
    LET c1 == c + 1
        reset == t - l > Window
        c2 == IF reset THEN 0 ELSE c1
        l2 == IF reset THEN t ELSE l
    IN  IF c2 > Ceiling
        THEN [count |-> 0, lastT |-> t + (Window - (t - l2)),
              now |-> t + (Window - (t - l2)), slept |-> Window - (t - l2)]
        ELSE [count |-> c2, lastT |-> l2, now |-> t, slept |-> -1]

\* History: requests still inside the rolling window that ends at time t.
Prune(log, t) == [u \in {x \in DOMAIN log : x > t - Window} |-> log[u]]

LogRequest(log, t) ==
    LET p == Prune(log, t)
    IN  [u \in DOMAIN p \cup {t} |-> IF u \in DOMAIN p THEN (IF u = t THEN p[u] + 1 ELSE p[u]) ELSE 1]

RECURSIVE SumLog(_, _)
SumLog(log, S) ==
    IF S = {} THEN 0
    ELSE LET u == CHOOSE x \in S : TRUE IN log[u] + SumLog(log, S \ {u})

RequestsInWindow == SumLog(reqLog, DOMAIN reqLog)

\* Seconds into a sleep at which a KeyboardInterrupt cuts it short
SleepCuts(length) == {d \in {1, 30} : d < length}

\* A client operation up to its HTTP request: _rate_limit runs and
\* returns, then (sent) the request reaches the server.
GateThen(cl, sent) ==
    LET r == RateLimit(cl.count, cl.lastT, cl.now)
    IN  [count |-> r.count, lastT |-> r.lastT, now |-> r.now,
         log |-> IF sent THEN LogRequest(cl.log, r.now) ELSE Prune(cl.log, r.now),
         gate |-> [before |-> cl.count, at |-> cl.now, start |-> cl.lastT,
                   slept |-> r.slept,
                   \* gate calls returned in the current window, counting
                   \* the call that opened it
                   calls |-> IF r.lastT # cl.lastT THEN 1 ELSE cl.gate.calls + 1]]

\* The gate call of a client operation has returned and the HTTP request
\* is not sent yet.
Gate(cl) == GateThen(cl, FALSE)

\* One client operation: the gate, then the HTTP request.
Request(cl) == GateThen(cl, TRUE)

\* cl is [count, lastT, now, log, gate].
ClientState == [count |-> request_count, lastT |-> last_request_time,
                now |-> now, log |-> reqLog, gate |-> gate]

\* The client states in which _rate_limit stands between its statements:
\* the counter incremented; in a new window the counter zeroed and then
\* the window restarted (38); above the ceiling the sleep under way, the
\* sleep over (42), the counter zeroed (43) and then the window restarted
\* (44). The call has not returned.
GateCuts(cl) ==
    LET entered == [cl EXCEPT !.count = cl.count + 1]
        reset == cl.now - cl.lastT > Window
        length == Window - (cl.now - cl.lastT)
        at(d) == [entered EXCEPT !.now = cl.now + d,
                                 !.log = Prune(cl.log, cl.now + d)]
    IN  {entered}
        \cup (IF reset
              THEN {[cl EXCEPT !.count = 0],
                    [cl EXCEPT !.count = 0, !.lastT = cl.now]}
              ELSE IF cl.count + 1 > Ceiling
              THEN {at(d) : d \in SleepCuts(length) \cup {length}}
                   \cup {[at(length) EXCEPT !.count = 0],
                         [at(length) EXCEPT !.count = 0,
                                            !.lastT = cl.now + length]}
              ELSE {})

\* The client states in which one client operation can be cut short after
\* its gate call began: inside the gate, the gate returned and the request
\* not sent, the request in flight.
CallCuts(cl) == GateCuts(cl) \cup {Gate(cl), Request(cl)}

SetClient(cl) ==
    /\ request_count' = cl.count
    /\ last_request_time' = cl.lastT
    /\ now' = cl.now
    /\ reqLog' = cl.log
    /\ gate' = cl.gate

NoGate == [before |-> 0, at |-> 0, start |-> 0, slept |-> -1, calls |-> 0]

(* --------------------------- inputs ----------------------------------- *)
None == <<>>                      \* Python None / a missing key
Some(x) == <<x>>

\* The fields of a market snapshot besides its identifier.
MarketKinds ==
    { [isResolved |-> FALSE, closeTime |-> None, outcomeType |-> "BINARY", probability |-> 50],
      [isResolved |-> FALSE, closeTime |-> None, outcomeType |-> "BINARY", probability |-> 0],
      [isResolved |-> TRUE,  closeTime |-> None, outcomeType |-> "BINARY", probability |-> 50],
      [isResolved |-> FALSE, closeTime |-> Some(CloseAtMs), outcomeType |-> "BINARY", probability |-> 50],
      [isResolved |-> FALSE, closeTime |-> None, outcomeType |-> "MULTIPLE_CHOICE", probability |-> 50] }

Snapshot(i, k) == [id |-> i, isResolved |-> k.isResolved, closeTime |-> k.closeTime,
                   outcomeType |-> k.outcomeType, probability |-> k.probability]

RECURSIVE SeqsUpTo(_, _)
SeqsUpTo(S, n) ==
    IF n = 0 THEN {<<>>}
    ELSE LET R == SeqsUpTo(S, n - 1)
         IN  R \cup {Append(q, x) : q \in {r \in R : Len(r) = n - 1}, x \in S}

\* A listing, as the identifiers of its snapshots in fetch order (an
\* identifier may repeat).  _process_market is the only reader of a
\* snapshot's other fields, which are drawn where it reads them.
Listings == SeqsUpTo(MarketIds, MaxListing)

\* Outcomes of one back-end round trip: the call raises, or returns a text
\* whose PROBABILITY / CONFIDENCE lines are absent (None) or carry a number.
ErrorReply == [kind |-> "error", prob |-> None, conf |-> None]
TextReply(P, C) == [kind |-> "text", prob |-> P, conf |-> C]

Replies ==
    {ErrorReply, TextReply(None, Some(90)), TextReply(Some(70), None)}
    \cup { TextReply(Some(P), Some(C)) : P \in {30, 45, 52, 55, 70}, C \in {55, 70, 90} }

\* The replies the polling-loop runs draw from: a raising back-end, a
\* qualifying estimate above the market and one below it.
LoopReplies ==
    {ErrorReply, TextReply(Some(70), Some(90)), TextReply(Some(30), Some(90))}

MinConfidences == {50, 80}

\* A PROBABILITY / CONFIDENCE line can also be present with a text that
\* float() rejects
Unparsable == <<0, 0>>
IsNumber(field) == Len(field) = 1

\* The replies a single analyze call is tried on: the numbers include
\* values outside 0-100
AnalyzeNumbers == {-10, 0, 30, 52, 70, 100, 105, 150}
AnalyzeFields == {None, Unparsable} \cup {Some(n) : n \in AnalyzeNumbers}
AnalyzeReplies ==
    {ErrorReply} \cup {TextReply(P, C) : P \in AnalyzeFields, C \in AnalyzeFields}
\* and the current probabilities of the market it is called for; 25, 75, 95
\* and 100 are exactly 5 points from a number above
AnalyzeProbs == {0, 20, 25, 50, 75, 80, 95, 100}

(* ------------------- LLMStrategy (llm_strategy.py) -------------------- *)
Abs(x) == IF x < 0 THEN -x ELSE x

FailureSignal(current_prob, why) ==
    [should_bet |-> FALSE, outcome |-> "YES", confidence |-> 0,
     estimated_probability |-> current_prob, reasoning |-> why]

\* variant: a reply without a usable CONFIDENCE line is parsed with
\* confidence 0 instead of being rejected
ParseResponse_NoConfidenceCheck(reply, current_prob) ==
    IF ~IsNumber(reply.prob)
    THEN FailureSignal(current_prob, "Parse error")
    ELSE LET probability == reply.prob[1]
         IN  [should_bet |-> FALSE,
              outcome |-> IF probability > current_prob THEN "YES" ELSE "NO",
              confidence |-> 0,
              estimated_probability |-> probability,
              reasoning |-> "text"]

\* prob_diff >= 0.05 is a test on binary64 numbers.  For whole percentages
\* more than 5 points apart it holds and for less than 5 points apart it
\* fails; exactly 5 points apart the difference of the two floats falls on
\* either side of the float 0.05.  The market percentages current_prob for
\* which abs((current_prob + 5) / 100 - current_prob / 100) >= 0.05 holds:
DivergentAbove ==
    {0, 2, 3, 5, 6, 8, 9, 11, 12, 15, 18, 21, 22, 23, 29, 35, 41, 47, 48,
     49, 50, 51, 57, 58, 59, 60, 61, 62, 63, 69, 70, 71, 72, 73, 74, 75,
     76, 82, 83, 84, 85, 86, 87, 88, 94, 95, 96, 97, 98, 99, 100}
\* and those for which abs((current_prob - 5) / 100 - current_prob / 100)
\* >= 0.05 holds:
DivergentBelow ==
    {0, 1, 2, 3, 4, 5, 7, 8, 10, 11, 13, 14, 16, 17, 20, 23, 26, 27, 28,
     34, 40, 46, 52, 53, 54, 55, 56, 62, 63, 64, 65, 66, 67, 68, 74, 75,
     76, 77, 78, 79, 80, 81, 87, 88, 89, 90, 91, 92, 93, 99, 100}

\* prob_diff = abs(probability - current_prob); prob_diff >= 0.05
ProbDiffAtLeast(probability, current_prob) ==
    IF Abs(probability - current_prob) # DivergencePct
    THEN Abs(probability - current_prob) > DivergencePct
    ELSE IF probability > current_prob
    THEN current_prob \in DivergentAbove
    ELSE current_prob \in DivergentBelow

\* _parse_response: response text -> StrategySignal.  float() raising on a
\* line, or a line missing, ends in the except clause of _parse_response.
ParseResponse(reply, current_prob) ==
    IF ~IsNumber(reply.prob) \/ ~IsNumber(reply.conf)
    THEN FailureSignal(current_prob, "Parse error")
    ELSE LET probability == reply.prob[1]
             confidence == reply.conf[1]
         IN  [should_bet |-> ProbDiffAtLeast(probability, current_prob) /\
                             confidence >= ConfidencePct,
              outcome |-> IF probability > current_prob THEN "YES" ELSE "NO",
              confidence |-> confidence,
              estimated_probability |-> probability,
              reasoning |-> "text"]

\* analyze: market snapshot and back-end outcome -> StrategySignal
Analyze(market, reply) ==
    IF reply.kind = "error"
    THEN FailureSignal(market.probability, "Error")
    ELSE ParseResponse(reply, market.probability)

\* analyze, the try block: the back-end call raises, or _parse_response
\* returns a signal
AnalyzeTry(market, reply) ==
    IF reply.kind = "error"
    THEN [op |-> "analyze", raised |-> TRUE, signal |-> <<>>]
    ELSE [op |-> "analyze", raised |-> FALSE,
          signal |-> <<ParseResponse(reply, market.probability)>>]

\* variant: analyze without its except clause
AnalyzeOutcome_NoExcept(market, reply) == AnalyzeTry(market, reply)

\* analyze as its caller sees it: whether an exception comes out of it, and
\* the StrategySignal it returns
AnalyzeOutcome(market, reply) ==
    LET t == AnalyzeTry(market, reply)
    IN  IF t.raised
        THEN [op |-> "analyze", raised |-> FALSE,
              signal |-> <<FailureSignal(market.probability, "Error")>>]
        ELSE t

(* ------------------- calculate_kelly_bet (utils.py) ------------------- *)
Zero == [num |-> 0, den |-> 1]
Whole(n) == [num |-> n, den |-> 1]
RECURSIVE GCD(_, _)
GCD(a, b) == IF b = 0 THEN a ELSE GCD(b, a % b)
\* The same rational in lowest terms (keeps the products below small)
Reduce(r) ==
    LET g == GCD(Abs(r.num), r.den)
    IN  [num |-> r.num \div g, den |-> r.den \div g]
Less(a, b) ==
    LET ra == Reduce(a)
        rb == Reduce(b)
    IN  ra.num * rb.den < rb.num * ra.den
RatMin(a, b) == IF Less(b, a) THEN b ELSE a
RatMax(a, b) == IF Less(a, b) THEN b ELSE a

\* variant: the first line does not test probability <= market_prob
CalculateKellyBet_NoEdgeTest(probability, market_prob, bankroll, max_bet, fraction) ==
    IF probability <= 0 \/ probability >= 100
    THEN [raised |-> FALSE, size |-> Zero]
    ELSE IF market_prob = 0 \/ market_prob = 100
    THEN [raised |-> TRUE, size |-> Zero]
    ELSE LET bn == 100 - market_prob
             bd == market_prob
             kn == bn * probability - bd * (100 - probability)
             kd == 100 * bn
             bet_size == [num |-> kn * fraction * bankroll, den |-> kd * 100]
         IN  [raised |-> FALSE, size |-> RatMin(RatMax(bet_size, Zero), Whole(max_bet))]

\* variant: the result is not capped at max_bet
CalculateKellyBet_NoCap(probability, market_prob, bankroll, max_bet, fraction) ==
    IF probability <= market_prob \/ probability <= 0 \/ probability >= 100
    THEN [raised |-> FALSE, size |-> Zero]
    ELSE IF market_prob = 0
    THEN [raised |-> TRUE, size |-> Zero]
    ELSE LET bn == 100 - market_prob
             bd == market_prob
             kn == bn * probability - bd * (100 - probability)
             kd == 100 * bn
             bet_size == [num |-> kn * fraction * bankroll, den |-> kd * 100]
         IN  [raised |-> FALSE, size |-> RatMax(bet_size, Zero)]

\* probability, market_prob, fraction in percent.  raised = TRUE stands for
\* the ZeroDivisionError of (1 - market_prob) / market_prob.
CalculateKellyBet(probability, market_prob, bankroll, max_bet, fraction) ==
    IF probability <= market_prob \/ probability <= 0 \/ probability >= 100
    THEN [raised |-> FALSE, size |-> Zero]
    ELSE IF market_prob = 0
    THEN [raised |-> TRUE, size |-> Zero]
    ELSE LET bn == 100 - market_prob          \* b = bn / bd
             bd == market_prob
             \* kelly_fraction = (b*p - (1-p)) / b = kn / kd
             kn == bn * probability - bd * (100 - probability)
             kd == 100 * bn
             bet_size == [num |-> kn * fraction * bankroll, den |-> kd * 100]
         IN  [raised |-> FALSE, size |-> RatMin(RatMax(bet_size, Zero), Whole(max_bet))]

(* ------------------------- ManifoldBot (bot.py) ----------------------- *)
\* variant: the close time is not looked at
ClosedOrResolved_NoCloseTime(market, t) == market.isResolved

\* _process_market, first filter: closeTime against time.time() * 1000
ClosedOrResolved(market, t) ==
    market.isResolved \/ (market.closeTime # None /\ market.closeTime[1] < t * 1000)

\* _process_market, both filters: the reason to skip, or "no"
Skips(market, t) ==
    IF ClosedOrResolved(market, t) THEN "skipped_closed"
    ELSE IF market.outcomeType # "BINARY" THEN "skipped_type"
    ELSE "no"

\* variant: the last signal that clears the bar wins
RECURSIVE ExecuteTradesFrom_Last(_, _, _)
ExecuteTradesFrom_Last(signals, minc, i) ==
    IF i > Len(signals) THEN 0
    ELSE LET later == ExecuteTradesFrom_Last(signals, minc, i + 1)
         IN  IF later # 0 THEN later
             ELSE IF signals[i].should_bet /\ signals[i].confidence >= minc THEN i
             ELSE 0

\* _execute_trades: index of the signal handed to _place_bet, 0 when none
RECURSIVE ExecuteTradesFrom(_, _, _)
ExecuteTradesFrom(signals, minc, i) ==
    IF i > Len(signals) THEN 0
    ELSE IF signals[i].should_bet /\ signals[i].confidence >= minc THEN i
    ELSE ExecuteTradesFrom(signals, minc, i + 1)

ExecuteTrades(signals, minc) == ExecuteTradesFrom(signals, minc, 1)

\* variant: the dry_run test is missing
PlaceBet_NoDryRun(market, signal, dry) ==
    LET k == CalculateKellyBet(signal.estimated_probability, market.probability,
                               Bankroll, MaxBetAmount, KellyPct)
    IN  IF k.raised THEN [step |-> "raised", bet_size |-> Zero]
        ELSE IF Less(k.size, Whole(MinBet)) THEN [step |-> "too_small", bet_size |-> k.size]
        ELSE [step |-> "submit", bet_size |-> k.size]

\* variant: the test bet_size < 1 is missing
PlaceBetWith_NoFloor(market, signal, dry, max_bet_amount) ==
    LET k == CalculateKellyBet(signal.estimated_probability, market.probability,
                               Bankroll, max_bet_amount, KellyPct)
    IN  IF k.raised THEN [step |-> "raised", bet_size |-> Zero]
        ELSE IF dry THEN [step |-> "dry_run", bet_size |-> k.size]
        ELSE [step |-> "submit", bet_size |-> k.size]

\* variant: the stake is sized on the probability of the signal's own side
PlaceBetWith_SidedStake(market, signal, dry, max_bet_amount) ==
    LET no == signal.outcome = "NO"
        k == CalculateKellyBet(IF no THEN 100 - signal.estimated_probability
                                     ELSE signal.estimated_probability,
                               IF no THEN 100 - market.probability
                                     ELSE market.probability,
                               Bankroll, max_bet_amount, KellyPct)
    IN  IF k.raised THEN [step |-> "raised", bet_size |-> Zero]
        ELSE IF Less(k.size, Whole(MinBet)) THEN [step |-> "too_small", bet_size |-> k.size]
        ELSE IF dry THEN [step |-> "dry_run", bet_size |-> k.size]
        ELSE [step |-> "submit", bet_size |-> k.size]

\* _place_bet up to the submission, for a bot whose cap is max_bet_amount:
\* what becomes of the chosen signal
PlaceBetWith(market, signal, dry, max_bet_amount) ==
    LET k == CalculateKellyBet(signal.estimated_probability, market.probability,
                               Bankroll, max_bet_amount, KellyPct)
    IN  IF k.raised THEN [step |-> "raised", bet_size |-> Zero]
        ELSE IF Less(k.size, Whole(MinBet)) THEN [step |-> "too_small", bet_size |-> k.size]
        ELSE IF dry THEN [step |-> "dry_run", bet_size |-> k.size]
        ELSE [step |-> "submit", bet_size |-> k.size]

\* _place_bet of a bot constructed with the default cap
PlaceBet(market, signal, dry) == PlaceBetWith(market, signal, dry, MaxBetAmount)

\* _process_market up to the submission, for the time t of its filter and
\* the back-end outcome replies[i] of the i-th registered strategy.
Pipeline(market, replies, minc, dry, t) ==
    LET skipped == Skips(market, t)
        signals == [i \in 1..Len(replies) |-> Analyze(market, replies[i])]
        acted == ExecuteTrades(signals, minc)
        plan == IF acted = 0 THEN [step |-> "no_signal", bet_size |-> Zero]
                ELSE PlaceBet(market, signals[acted], dry)
    IN  IF skipped # "no"
        THEN [analyzed |-> FALSE, signals |-> <<>>, acted |-> 0, step |-> skipped,
              bet_size |-> Zero, outcome |-> "none"]
        ELSE [analyzed |-> TRUE, signals |-> signals, acted |-> acted, step |-> plan.step,
              bet_size |-> plan.bet_size,
              outcome |-> IF acted = 0 THEN "none" ELSE signals[acted].outcome]

\* variant: no filter against ProcessedSet
NewMarkets_Unfiltered(markets, processed) == markets

\* _check_markets: new_markets = [m for m in markets if m["id"] not in processed]
NewMarkets(markets, processed) ==
    SelectSeq(markets, LAMBDA id : id \notin processed)

NoTrial == [market |-> None, replies |-> <<>>, minc |-> 0, dry |-> FALSE, at |-> 0]
NoDecision == [analyzed |-> FALSE, signals |-> <<>>, acted |-> 0, step |-> "none",
               bet_size |-> Zero, outcome |-> "none"]
NoCall == [op |-> "none"]
NoResult == [op |-> "none"]

(* ------------------------------ Init ---------------------------------- *)
\* State after ManifoldAPIClient.__init__
ClientInit ==
    /\ request_count = 0
    /\ last_request_time = 0
    /\ now = 0
    /\ reqLog = <<>>
    /\ gate = NoGate

\* State after ManifoldBot.__init__, apart from dry_run and the position
BotInitWith(ids, minc) ==
    /\ min_confidence = minc
    /\ strategies = <<>>
    /\ processed_markets = {}
    /\ max_iterations = None
    /\ iteration = 0
    /\ new_markets = <<>>
    /\ analyzeCount = [i \in ids |-> 0]
    /\ added = {}
    /\ started = {}
    /\ filtered = {}
    /\ submitCount = [i \in ids |-> 0]
    /\ simulated = [i \in ids |-> 0]
    /\ cycle_error = "none"
    /\ pause = 0
    /\ interrupted_at = "none"
    /\ caller = "none"

BotInitOn(ids) == BotInitWith(ids, MinConfidence)

BotInit == BotInitOn(MarketIds)

\* POLL_INTERVAL_SECONDS: the default, and a negative number (load_config
\* takes any integer; time.sleep raises ValueError on a negative one)
PollIntervals == {PollInterval, -1}

Init ==
    /\ ClientInit
    /\ BotInit
    /\ dry_run \in BOOLEAN
    /\ poll_interval \in PollIntervals
    /\ pc = "constructed"
    /\ trial = NoTrial
    /\ decision = NoDecision
    /\ call = NoCall
    /\ result = NoResult

(* ----------------------------- actions -------------------------------- *)
\* add_strategy
AddStrategy(name) ==
    /\ pc = "constructed"
    /\ Len(strategies) < MaxRegistered
    /\ strategies' = Append(strategies, name)
    /\ UNCHANGED <<clientVars, dry_run, min_confidence, poll_interval, caller,
                   processed_markets, pc,
                   max_iterations, iteration, new_markets, histVars, trialVars>>

\* Who calls run: run_bot.main, or any other caller of the method
Callers == {"main", "direct"}

\* The call run_bot.main makes: bot.run() without a limit (run_bot.py:66),
\* on a bot built with dry_run=True (31) that has a strategy (55-59)
MainCalls(limit) == limit = None /\ dry_run /\ strategies # <<>>

\* run(max_iterations), up to the loop: raises ValueError without strategies
Run(limit, by) ==
    /\ pc = "constructed"
    /\ by = "main" => MainCalls(limit)
    /\ caller' = by
    /\ max_iterations' = limit
    /\ iteration' = 0
    /\ pc' = IF strategies = <<>> THEN "raised" ELSE "loop"
    /\ UNCHANGED <<clientVars, dry_run, min_confidence, poll_interval, strategies,
                   processed_markets, new_markets, histVars, trialVars>>

\* run_bot.main with no back-end key: it returns before calling run
MainReturns ==
    /\ pc = "constructed"
    /\ strategies = <<>>
    /\ pc' = "not_run"
    /\ UNCHANGED <<clientVars, configVars, processed_markets, max_iterations,
                   iteration, new_markets, histVars, trialVars>>

\* Python truthiness of max_iterations: None and 0 are both false
Truthy(opt) == opt # None /\ opt[1] # 0

\* run: max_iterations and iteration >= max_iterations
LimitReached == Truthy(max_iterations) /\ iteration >= max_iterations[1]

\* run, top of the while loop: the limit test breaks out of the loop
StopAtLimit ==
    /\ pc = "loop"
    /\ LimitReached
    /\ pc' = "done"
    /\ UNCHANGED <<clientVars, configVars, processed_markets, max_iterations,
                   iteration, new_markets, histVars, trialVars>>

\* run, top of the while loop: a new cycle starts
StartIteration ==
    /\ pc = "loop"
    /\ ~LimitReached
    /\ iteration < MaxCycles
    /\ iteration' = iteration + 1
    /\ started' = {}
    /\ added' = {}
    /\ filtered' = {}
    /\ pc' = "fetch"
    /\ UNCHANGED <<clientVars, configVars, processed_markets, max_iterations,
                   new_markets, analyzeCount, submitCount, simulated, cycle_error,
                   pause, interrupted_at, trialVars>>

\* variant: the except clause of _check_markets logs the failure and ends
\* the process (sys.exit); SystemExit is no Exception, so it passes both
\* except clauses of run and leaves it
CheckMarketsExcept_Exits == "failed"

\* _check_markets, except Exception: the failure is logged and
\* _check_markets returns to run, which goes on to its sleep
CheckMarketsExcept == "process"

\* _check_markets: get_user_markets returns a listing (two requests)
FetchMarkets(markets) ==
    /\ pc = "fetch"
    /\ \E user \in {Request(ClientState)} : SetClient(Request(user))
    /\ new_markets' = NewMarkets(markets, processed_markets)
    /\ filtered' = {markets[i] : i \in DOMAIN markets} \cap processed_markets
    /\ cycle_error' = "none"
    /\ pc' = "process"
    /\ UNCHANGED <<configVars, processed_markets, max_iterations, iteration,
                   analyzeCount, added, started, submitCount, simulated, pause,
                   interrupted_at, trialVars>>

\* _check_markets: get_user_markets raises; the except clause ends the cycle.
\* "user_error": GET /user fails; "not_found": no id in the body (ValueError);
\* "markets_error": GET /markets fails after the second gate call.
FetchFails(why) ==
    /\ pc = "fetch"
    /\ \E user \in {Request(ClientState)} :
          SetClient(IF why = "markets_error" THEN Request(user) ELSE user)
    /\ new_markets' = <<>>
    /\ cycle_error' = "fetch"
    /\ pc' = CheckMarketsExcept
    /\ UNCHANGED <<configVars, processed_markets, max_iterations, iteration,
                   analyzeCount, added, started, filtered, submitCount, simulated,
                   pause, interrupted_at, trialVars>>

\* _check_markets, one turn of the for loop: _process_market(market), then
\* processed_markets.add.  kind is the rest of the snapshot, replies[i] what
\* strategy i's back-end does, posted whether POST /bet succeeds: _place_bet
\* catches the failure and only logs, so both outcomes leave the same state.
ProcessMarket(kind, replies, posted) ==
    /\ pc = "process"
    /\ new_markets # <<>>
    /\ LET market == Snapshot(Head(new_markets), kind)
           p == Pipeline(market, replies, min_confidence, dry_run, now)
           submit == p.step = "submit"
       IN  /\ started' = started \cup {market.id}
           /\ analyzeCount' = IF p.analyzed
                              THEN [analyzeCount EXCEPT ![market.id] = @ + 1]
                              ELSE analyzeCount
           /\ IF submit
              THEN /\ SetClient(Request(ClientState))
                   /\ submitCount' = [submitCount EXCEPT ![market.id] = @ + 1]
              ELSE UNCHANGED <<clientVars, submitCount>>
           /\ simulated' = IF p.step = "dry_run"
                           THEN [simulated EXCEPT ![market.id] = @ + 1]
                           ELSE simulated
           /\ IF p.step = "raised"
              THEN \* the exception leaves the for loop; the except clause logs it
                   /\ new_markets' = <<>>
                   /\ cycle_error' = "process"
                   /\ pc' = CheckMarketsExcept
                   /\ UNCHANGED <<processed_markets, added>>
              ELSE /\ new_markets' = Tail(new_markets)
                   /\ processed_markets' = processed_markets \cup {market.id}
                   /\ added' = added \cup {market.id}
                   /\ UNCHANGED <<pc, cycle_error>>
    /\ UNCHANGED <<configVars, max_iterations, iteration, filtered, pause,
                   interrupted_at, trialVars>>

\* run: time.sleep(self.poll_interval) after _check_markets returned.  A
\* negative length makes time.sleep raise ValueError, which the except
\* Exception clause of run catches.
Sleep ==
    /\ pc = "process"
    /\ new_markets = <<>>
    /\ IF poll_interval >= 0
       THEN /\ now' = now + poll_interval
            /\ reqLog' = Prune(reqLog, now + poll_interval)
            /\ pause' = poll_interval
            /\ pc' = "loop"
       ELSE /\ pc' = "cooldown"
            /\ UNCHANGED <<now, reqLog, pause>>
    /\ UNCHANGED <<request_count, last_request_time, gate, configVars,
                   processed_markets, max_iterations, iteration, new_markets,
                   analyzeCount, added, started, filtered, submitCount, simulated,
                   cycle_error, interrupted_at, trialVars>>

\* run, except Exception: time.sleep(60), then the next turn of the loop
CooldownSleep ==
    /\ pc = "cooldown"
    /\ now' = now + Cooldown
    /\ reqLog' = Prune(reqLog, now + Cooldown)
    /\ pause' = Cooldown
    /\ pc' = "loop"
    /\ UNCHANGED <<request_count, last_request_time, gate, configVars,
                   processed_markets, max_iterations, iteration, new_markets,
                   analyzeCount, added, started, filtered, submitCount, simulated,
                   cycle_error, interrupted_at, trialVars>>

\* The arguments run is called with: no limit, and the limits 0 and 1
Limits == {None, Some(0), Some(1)}

\* Where a KeyboardInterrupt raised at position at ends.  Inside the try of
\* run (bot.py:69-77) it reaches except KeyboardInterrupt (79-81) and run
\* returns.  Raised before the loop (59-66), on the while and try lines
\* (67-68, where the interpreter checks for signals on the way back to the
\* loop head) or by the sleep inside the except Exception clause (83-85),
\* it is outside the try and leaves run.  Called by run_bot.main, it then
\* reaches the except KeyboardInterrupt of main (run_bot.py:65-68); any
\* other caller receives the KeyboardInterrupt.
InterruptHandler(at, by) ==
    IF at \notin {"run", "loop_head", "cooldown"} THEN "stopped"
    ELSE IF by = "main" THEN "stopped_in_main"
    ELSE "interrupted"

\* The positions of run at which the process stands between two steps: at
\* "loop" the while / try lines or the limit test inside the try; the
\* sleep between two cycles is the position after the last market of the
\* listing
Positions ==
    IF pc = "loop" THEN {"loop_head", "loop"}
    ELSE IF pc = "process" /\ new_markets = <<>> THEN {"sleep"}
    ELSE {pc}

\* A KeyboardInterrupt arrives between two steps of run
InterruptAt(at) ==
    /\ pc \in {"loop", "fetch", "process", "cooldown"}
    /\ at \in Positions
    /\ interrupted_at' = at
    /\ pc' = InterruptHandler(at, caller)
    /\ UNCHANGED <<clientVars, configVars, processed_markets, max_iterations,
                   iteration, new_markets, analyzeCount, added, started, filtered,
                   submitCount, simulated, cycle_error, pause, trialVars>>

\* A KeyboardInterrupt arrives in run(limit) before the loop is entered:
\* on the test of self.strategies or the raise (bot.py:59-60), with or
\* without a strategy, or on the lines up to iteration = 0 (62-66)
InterruptInRun(limit, by) ==
    /\ pc = "constructed"
    /\ by = "main" => MainCalls(limit)
    /\ caller' = by
    /\ max_iterations' = limit
    /\ iteration' = 0
    /\ interrupted_at' = "run"
    /\ pc' = InterruptHandler("run", by)
    /\ UNCHANGED <<clientVars, dry_run, min_confidence, poll_interval, strategies,
                   processed_markets, new_markets,
                   analyzeCount, added, started, filtered, submitCount, simulated,
                   cycle_error, pause, trialVars>>

\* A KeyboardInterrupt arrives inside get_user_markets after a gate call
\* began: the one before GET /user (requests = 1) or, GET /user answered,
\* the one before GET /markets (requests = 2)
InterruptInFetch(requests) ==
    /\ pc = "fetch"
    /\ \E began \in {IF requests = 2 THEN Request(ClientState) ELSE ClientState} :
          \E cl \in CallCuts(began) : SetClient(cl)
    /\ interrupted_at' = "fetch"
    /\ pc' = InterruptHandler("fetch", caller)
    /\ UNCHANGED <<configVars, processed_markets, max_iterations, iteration,
                   new_markets, analyzeCount, added, started, filtered,
                   submitCount, simulated, cycle_error, pause, trialVars>>

\* The places inside one turn of the for loop where the process waits or
\* stands: _process_market entered, a back-end call of a strategy in
\* flight, client.place_bet called and not returned, _process_market
\* returned and processed_markets.add (bot.py:98) not yet run
Stages == {"entered", "analyze", "post", "returned"}

\* A KeyboardInterrupt arrives inside a turn of the for loop: what the turn
\* did up to the stage stays done, the market is not added
InterruptInProcess(kind, replies, stage) ==
    /\ pc = "process"
    /\ new_markets # <<>>
    /\ LET market == Snapshot(Head(new_markets), kind)
           p == Pipeline(market, replies, min_confidence, dry_run, now)
           analyzed == p.analyzed /\ stage # "entered"
           submitted == p.step = "submit" /\ stage \in {"post", "returned"}
       IN  /\ stage = "analyze" => p.analyzed
           /\ stage = "post" => p.step = "submit"
           /\ stage = "returned" => p.step # "raised"
           /\ started' = started \cup {market.id}
           /\ analyzeCount' = IF analyzed
                              THEN [analyzeCount EXCEPT ![market.id] = @ + 1]
                              ELSE analyzeCount
           /\ IF submitted
              THEN /\ \E cl \in (IF stage = "post"
                                 THEN {ClientState} \cup CallCuts(ClientState)
                                 ELSE {Request(ClientState)}) : SetClient(cl)
                   /\ submitCount' = [submitCount EXCEPT ![market.id] = @ + 1]
              ELSE UNCHANGED <<clientVars, submitCount>>
           /\ simulated' = IF p.step = "dry_run" /\ stage = "returned"
                           THEN [simulated EXCEPT ![market.id] = @ + 1]
                           ELSE simulated
    /\ interrupted_at' = "process"
    /\ pc' = InterruptHandler("process", caller)
    /\ UNCHANGED <<configVars, processed_markets, max_iterations, iteration,
                   new_markets, added, filtered, cycle_error, pause, trialVars>>

\* A KeyboardInterrupt arrives d seconds into time.sleep(self.poll_interval)
InterruptInSleep(d) ==
    /\ pc = "process"
    /\ new_markets = <<>>
    /\ d \in SleepCuts(poll_interval)
    /\ now' = now + d
    /\ reqLog' = Prune(reqLog, now + d)
    /\ interrupted_at' = "sleep"
    /\ pc' = InterruptHandler("sleep", caller)
    /\ UNCHANGED <<request_count, last_request_time, gate, configVars,
                   processed_markets, max_iterations, iteration, new_markets,
                   analyzeCount, added, started, filtered, submitCount, simulated,
                   cycle_error, pause, trialVars>>

\* A KeyboardInterrupt arrives d seconds into the time.sleep(60) of the
\* except Exception clause
InterruptInCooldown(d) ==
    /\ pc = "cooldown"
    /\ d \in SleepCuts(Cooldown)
    /\ now' = now + d
    /\ reqLog' = Prune(reqLog, now + d)
    /\ interrupted_at' = "cooldown"
    /\ pc' = InterruptHandler("cooldown", caller)
    /\ UNCHANGED <<request_count, last_request_time, gate, configVars,
                   processed_markets, max_iterations, iteration, new_markets,
                   analyzeCount, added, started, filtered, submitCount, simulated,
                   cycle_error, pause, trialVars>>

\* A KeyboardInterrupt arrives while run executes, anywhere but inside a
\* turn of the for loop
Interrupt ==
    \/ \E at \in {"loop_head", "loop", "fetch", "process", "sleep", "cooldown"} :
          InterruptAt(at)
    \/ \E n \in Limits : \E by \in Callers : InterruptInRun(n, by)
    \/ \E k \in {1, 2} : InterruptInFetch(k)
    \/ \E d \in {1, 30} : InterruptInSleep(d)
    \/ \E d \in {1, 30} : InterruptInCooldown(d)

\* The back-end outcomes drawn for a snapshot: none when it is skipped
RepliesFor(kind) ==
    IF Skips(Snapshot(0, kind), now) # "no" THEN {<<>>}
    ELSE [1..Len(strategies) -> LoopReplies]

\* The outcomes drawn for POST /bet: one when no bet is submitted
PostsFor(kind, replies) ==
    IF Pipeline(Snapshot(0, kind), replies, min_confidence, dry_run, now).step = "submit"
    THEN BOOLEAN ELSE {TRUE}


Next ==
    \/ AddStrategy("LLM Strategy")
    \/ \E n \in Limits : \E by \in Callers : Run(n, by)
    \/ MainReturns
    \/ StopAtLimit
    \/ StartIteration
    \/ pc = "fetch" /\ \E m \in Listings : FetchMarkets(m)
    \/ pc = "fetch" /\ \E w \in {"user_error", "not_found", "markets_error"} : FetchFails(w)
    \/ pc = "process" /\ new_markets # <<>> /\
          \E k \in MarketKinds : \E r \in RepliesFor(k) : \E ok \in PostsFor(k, r) :
              ProcessMarket(k, r, ok)
    \/ Sleep
    \/ CooldownSleep

Spec == Init /\ [][Next]_vars

\* The loop with an interruption that may arrive at any position
\* The back-end outcomes that have arrived at a stage: none before the
\* last back-end call has returned
RepliesAt(kind, stage) ==
    IF stage \in {"entered", "analyze"} THEN {<<>>} ELSE RepliesFor(kind)

NextRun ==
    \/ Next
    \/ Interrupt
    \/ pc = "process" /\ new_markets # <<>> /\
          \E k \in MarketKinds : \E st \in Stages : \E r \in RepliesAt(k, st) :
              InterruptInProcess(k, r, st)

SpecRun == Init /\ [][NextRun]_vars

\* The loop on listings of at most one market, with each way a cycle can
\* fail: the fetch raises, the stake sizer raises on a market at
\* probability 0, POST /bet fails
LiveListings == {<<>>, <<1>>}
LiveKinds == {k \in MarketKinds : Skips(Snapshot(0, k), 0) = "no"}
LiveReplies == {<<TextReply(Some(70), Some(90))>>}

LoopStep ==
    \/ strategies = <<>> /\ AddStrategy("LLM Strategy")
    \/ \E n \in Limits : \E by \in Callers : Run(n, by)
    \/ StopAtLimit
    \/ StartIteration
    \/ pc = "fetch" /\ \E m \in LiveListings : FetchMarkets(m)
    \/ pc = "fetch" /\ \E w \in {"user_error", "not_found", "markets_error"} : FetchFails(w)
    \/ pc = "process" /\ new_markets # <<>> /\
          \E k \in LiveKinds : \E r \in LiveReplies : \E ok \in PostsFor(k, r) :
              ProcessMarket(k, r, ok)
    \/ Sleep
    \/ CooldownSleep

NextLive ==
    \/ LoopStep
    \/ Interrupt
    \/ pc = "process" /\ new_markets # <<>> /\
          \E k \in LiveKinds : \E st \in Stages :
              \E r \in (IF st \in {"entered", "analyze"} THEN {<<>>} ELSE LiveReplies) :
                  InterruptInProcess(k, r, st)

\* The loop keeps running: a step it can take is eventually taken; an
\* interruption may or may not arrive
SpecLive == Init /\ [][NextLive]_vars /\ WF_vars(LoopStep)

(* ------------------- the loop on a pair of markets --------------------- *)
\* The creator has two markets, listed in either order; each snapshot is an
\* open binary market at probability 0.5 or 0, and the strategy's back-end
\* fails or answers with a signal that qualifies.
PairIds == {1, 2}
PairListings == {<<1, 2>>, <<2, 1>>, <<1>>, <<>>}
PairReplies == {<<ErrorReply>>, <<TextReply(Some(70), Some(90))>>}

InitPair ==
    /\ ClientInit
    /\ BotInitOn(PairIds)
    /\ dry_run \in BOOLEAN
    /\ poll_interval \in PollIntervals
    /\ pc = "constructed"
    /\ trial = NoTrial
    /\ decision = NoDecision
    /\ call = NoCall
    /\ result = NoResult

NextPair ==
    \/ strategies = <<>> /\ AddStrategy("LLM Strategy")
    \/ \E n \in Limits : \E by \in Callers : Run(n, by)
    \/ StopAtLimit
    \/ StartIteration
    \/ pc = "fetch" /\ \E m \in PairListings : FetchMarkets(m)
    \/ pc = "fetch" /\ \E w \in {"user_error", "not_found", "markets_error"} : FetchFails(w)
    \/ pc = "process" /\ new_markets # <<>> /\
          \E k \in LiveKinds : \E r \in PairReplies : \E ok \in PostsFor(k, r) :
              ProcessMarket(k, r, ok)
    \/ Sleep
    \/ CooldownSleep

SpecPair == InitPair /\ [][NextPair]_vars

(* ------------------ the gate under a stream of calls ------------------ *)
\* A client used directly: calls of its single-request operations
\* (get_market, get_market_probability, get_bets, search_markets), with the
\* clock moving between bursts of calls.
TimeSteps == {31, 61}

InitRL ==
    /\ ClientInit
    /\ BotInit
    /\ dry_run = TRUE
    /\ poll_interval = PollInterval
    /\ pc = "client"
    /\ trial = NoTrial
    /\ decision = NoDecision
    /\ call = NoCall
    /\ result = NoResult

\* get_market and the other single-request operations: the gate, one request
ClientCall ==
    /\ pc = "client"
    /\ now <= MaxTime
    /\ SetClient(Request(ClientState))
    /\ UNCHANGED <<botVars, trialVars>>

\* The caller lets dt seconds pass between two bursts of calls
Advance(dt) ==
    /\ pc = "client"
    /\ request_count % BurstSize = 0
    /\ now + dt <= MaxTime
    /\ now' = now + dt
    /\ reqLog' = Prune(reqLog, now + dt)
    /\ UNCHANGED <<request_count, last_request_time, gate, botVars, trialVars>>

NextRL ==
    \/ ClientCall
    \/ \E dt \in TimeSteps : Advance(dt)

SpecRL == InitRL /\ [][NextRL]_vars

(* ---------------- one market through the decision pipeline ------------ *)
\* time.time() when _process_market runs: the close time itself (not yet
\* past) and a second after it
DecideTimes == {0, 1}

Trials ==
    [market : {Snapshot(1, k) : k \in MarketKinds},
     replies : SeqsUpTo(Replies, MaxStrategies) \ {<<>>},
     minc : MinConfidences,
     dry : BOOLEAN,
     at : DecideTimes]

\* request_count when _process_market runs: a fresh client, and a client
\* that has used up the ceiling of its window
DecideCounts == {0, Ceiling}

\* A bot constructed at time 0 with the trial's dry_run and min_confidence,
\* whose client has issued request_count requests at time 0
InitDecide ==
    /\ trial \in Trials
    /\ request_count \in DecideCounts
    /\ last_request_time = 0
    /\ now = trial.at
    /\ reqLog = IF request_count = 0 THEN <<>> ELSE [u \in {0} |-> request_count]
    /\ gate = IF request_count = 0 THEN NoGate
              ELSE [before |-> request_count - 1, at |-> 0, start |-> 0,
                    slept |-> -1, calls |-> request_count]
    /\ BotInitWith(MarketIds, trial.minc)
    /\ dry_run = trial.dry
    /\ poll_interval = PollInterval
    /\ pc = "trial"
    /\ decision = NoDecision
    /\ call = NoCall
    /\ result = NoResult

\* _process_market on the drawn snapshot, with the drawn back-end outcomes:
\* the live branch of _place_bet ends in client.place_bet, the gate and
\* POST /bet, whose failure _place_bet catches and only logs
Decide ==
    /\ pc = "trial"
    /\ decision = NoDecision
    /\ LET market == trial.market
           p == Pipeline(market, trial.replies, min_confidence, dry_run, now)
       IN  /\ decision' = p
           /\ started' = started \cup {market.id}
           /\ analyzeCount' = IF p.analyzed
                              THEN [analyzeCount EXCEPT ![market.id] = @ + 1]
                              ELSE analyzeCount
           /\ IF p.step = "submit"
              THEN /\ SetClient(Request(ClientState))
                   /\ submitCount' = [submitCount EXCEPT ![market.id] = @ + 1]
              ELSE UNCHANGED <<clientVars, submitCount>>
           /\ simulated' = IF p.step = "dry_run"
                           THEN [simulated EXCEPT ![market.id] = @ + 1]
                           ELSE simulated
    /\ UNCHANGED <<configVars, processed_markets, pc, max_iterations, iteration,
                   new_markets, added, filtered, cycle_error, pause,
                   interrupted_at, trial, call, result>>

NextDecide == Decide

SpecDecide == InitDecide /\ [][NextDecide]_vars

(* ------------------------ one call of analyze ------------------------- *)
AnalyzeCalls ==
    [op : {"analyze"},
     market : {Snapshot(1, [isResolved |-> FALSE, closeTime |-> None,
                            outcomeType |-> "BINARY", probability |-> q]) :
                   q \in AnalyzeProbs},
     reply : AnalyzeReplies]

InitAnalyze ==
    /\ ClientInit
    /\ BotInit
    /\ dry_run = TRUE
    /\ poll_interval = PollInterval
    /\ pc = "call"
    /\ trial = NoTrial
    /\ decision = NoDecision
    /\ call \in AnalyzeCalls
    /\ result = NoResult

\* strategy.analyze(market) with the drawn back-end outcome
AnalyzeCall ==
    /\ pc = "call"
    /\ call.op = "analyze"
    /\ result = NoResult
    /\ result' = AnalyzeOutcome(call.market, call.reply)
    /\ UNCHANGED <<clientVars, botVars, trial, decision, call>>

NextAnalyze == AnalyzeCall

SpecAnalyze == InitAnalyze /\ [][NextAnalyze]_vars

(* ------------------- one call of calculate_kelly_bet ------------------ *)
\* Arguments, probabilities and fraction in percent; they include
\* probabilities at and outside the ends of [0, 1] and a negative bankroll
KellyProbs       == {-10, 0, 30, 50, 70, 100, 110}
KellyMarketProbs == {0, 30, 50, 70, 100}
KellyBankrolls   == {-1000, 0, 100, 1000}
KellyCaps        == {0, 50, 100}
KellyFractions   == {0, 25, 100}

KellyCalls ==
    [op : {"kelly"}, probability : KellyProbs, market_prob : KellyMarketProbs,
     bankroll : KellyBankrolls, max_bet : KellyCaps, fraction : KellyFractions]

InitKelly ==
    /\ ClientInit
    /\ BotInit
    /\ dry_run = TRUE
    /\ poll_interval = PollInterval
    /\ pc = "call"
    /\ trial = NoTrial
    /\ decision = NoDecision
    /\ call \in KellyCalls
    /\ result = NoResult

\* calculate_kelly_bet(probability, market_prob, bankroll, max_bet, fraction)
KellyCall ==
    /\ pc = "call"
    /\ call.op = "kelly"
    /\ result = NoResult
    /\ result' = LET k == CalculateKellyBet(call.probability, call.market_prob,
                                            call.bankroll, call.max_bet, call.fraction)
                 IN  [op |-> "kelly", raised |-> k.raised, size |-> k.size]
    /\ UNCHANGED <<clientVars, botVars, trial, decision, call>>

NextKelly == KellyCall

SpecKelly == InitKelly /\ [][NextKelly]_vars

(* ------------------- get_user_markets on its own ----------------------- *)
\* One call of get_user_markets against a provider whose two responses are
\* drawn: the status of GET /user/{username} and the id field of its body,
\* the status of GET /markets and the listing in its body.
\* requests.Response.raise_for_status raises HTTPError for a 4xx or 5xx status
RaiseForStatus(status) == status >= 400 /\ status < 600

\* if not user_id: the key is missing or null (None), or the id is ""
NoUserId(id) == id = None \/ id[1] = ""

UserStatuses == {200, 404, 429, 500}
UserIdFields == {None, Some(""), Some("u1")}
MarketsStatuses == {200, 429, 500}

\* get_user_markets(username): the exception raised, the requests issued in
\* order, the listing returned and the client after the call
GetUserMarkets(cl, user_status, user_id, markets_status, listing) ==
    LET c1 == Request(cl)
        c2 == Request(c1)
    IN  IF RaiseForStatus(user_status)
        THEN [raised |-> "HTTPError", requests |-> <<"user">>,
              returned |-> <<>>, client |-> c1]
        ELSE IF NoUserId(user_id)
        THEN [raised |-> "ValueError", requests |-> <<"user">>,
              returned |-> <<>>, client |-> c1]
        ELSE IF RaiseForStatus(markets_status)
        THEN [raised |-> "HTTPError", requests |-> <<"user", "markets">>,
              returned |-> <<>>, client |-> c2]
        ELSE [raised |-> "none", requests |-> <<"user", "markets">>,
              returned |-> listing, client |-> c2]

FetchCalls ==
    [op : {"get_user_markets"}, user_status : UserStatuses, user_id : UserIdFields,
     markets_status : MarketsStatuses, listing : Listings]

InitFetch ==
    /\ ClientInit
    /\ BotInit
    /\ dry_run = TRUE
    /\ poll_interval = PollInterval
    /\ pc = "call"
    /\ trial = NoTrial
    /\ decision = NoDecision
    /\ call \in FetchCalls
    /\ result = NoResult

FetchCall ==
    /\ pc = "call"
    /\ call.op = "get_user_markets"
    /\ result = NoResult
    /\ LET g == GetUserMarkets(ClientState, call.user_status, call.user_id,
                                call.markets_status, call.listing)
       IN  /\ SetClient(g.client)
           /\ result' = [op |-> "get_user_markets", raised |-> g.raised,
                         requests |-> g.requests, returned |-> g.returned]
    /\ UNCHANGED <<botVars, trial, decision, call>>

NextFetch == FetchCall

SpecFetch == InitFetch /\ [][NextFetch]_vars

(* ----------------------- _place_bet on its own ------------------------- *)
\* One call of _place_bet(market, signal, strategy) on a bot whose cap
\* max_bet_amount, mode and POST /bet outcome are drawn with the market
\* probability and the signal.
BetMarketProbs == {0, 25, 50, 95}
BetEstimates   == {-10, 0, 30, 52, 70, 100, 150}
BetCaps        == {-5, 0, 1, 50, 100}

BetCalls ==
    [op : {"place_bet"}, market_prob : BetMarketProbs,
     estimated_probability : BetEstimates, outcome : {"YES", "NO"},
     max_bet_amount : BetCaps, dry : BOOLEAN, posted : BOOLEAN]

InitBet ==
    /\ ClientInit
    /\ BotInit
    /\ dry_run = TRUE
    /\ poll_interval = PollInterval
    /\ pc = "call"
    /\ trial = NoTrial
    /\ decision = NoDecision
    /\ call \in BetCalls
    /\ result = NoResult

\* _place_bet: submitted lists the bets sent with client.place_bet; a
\* failing POST is caught and logged
BetCall ==
    /\ pc = "call"
    /\ call.op = "place_bet"
    /\ result = NoResult
    /\ LET market == [id |-> 1, probability |-> call.market_prob]
           signal == [estimated_probability |-> call.estimated_probability,
                      outcome |-> call.outcome]
           b == PlaceBetWith(market, signal, call.dry, call.max_bet_amount)
       IN  /\ IF b.step = "submit"
              THEN SetClient(Request(ClientState))
              ELSE UNCHANGED clientVars
           /\ result' = [op |-> "place_bet", step |-> b.step, raised |-> b.step = "raised",
                         \* what _place_bet prints about the POST
                         post |-> IF b.step # "submit" THEN "none"
                                  ELSE IF call.posted THEN "placed" ELSE "failed",
                         submitted |-> IF b.step = "submit"
                                       THEN <<[contract_id |-> market.id,
                                               amount |-> b.bet_size,
                                               outcome |-> signal.outcome]>>
                                       ELSE <<>>]
    /\ UNCHANGED <<botVars, trial, decision, call>>

NextBet == BetCall

SpecBet == InitBet /\ [][NextBet]_vars

(* ============================== claims ================================ *)

\* C1: once an identifier is in ProcessedSet, no later poll cycle dispatches
\* it to a strategy: a step that dispatches an identifier finds it outside
\* ProcessedSet, or put there earlier in the same cycle.
C1_NoLaterDispatch ==
    [][\A i \in MarketIds :
          analyzeCount'[i] > analyzeCount[i] =>
              (i \notin processed_markets \/ i \in added)]_vars

\* C1 witness: a second cycle whose listing returned an identifier processed
\* (and analysed) in the first; the filter left it out and the cycle is over.
C1_Witness ==
    \E i \in MarketIds :
        /\ iteration = 2 /\ pc = "process" /\ new_markets = <<>>
        /\ i \in filtered /\ i \notin added /\ analyzeCount[i] = 1

\* C2 (as claimed): each identifier is dispatched to the strategies at most
\* once in the process lifetime.
C2_AtMostOneDispatch == \A i \in MarketIds : analyzeCount[i] <= 1

\* C3 (as claimed): at the end of a cycle every identifier whose processing
\* started in it is in ProcessedSet.
C3_StartedIsProcessed ==
    (pc = "process" /\ new_markets = <<>>) => started \subseteq processed_markets

\* C4: analyze ran for a market only if the market was not resolved, its
\* close time was not before the time of processing, and it was binary.
C4_AnalyzedOnlyIfOpenBinary ==
    decision.analyzed =>
        LET m == trial.market
        IN  /\ ~m.isResolved
            /\ (m.closeTime = None \/ m.closeTime[1] >= trial.at * 1000)
            /\ m.outcomeType = "BINARY"

\* C4 witness: a market was analysed at the very instant of its close time.
C4_Witness ==
    /\ decision.analyzed
    /\ trial.market.closeTime # None
    /\ trial.market.closeTime[1] = trial.at * 1000
    /\ Len(decision.signals) >= 1

\* Signal i meets the two thresholds the claim names, the divergence as
\* the strategy computes it
C5_Meets(i) ==
    /\ ProbDiffAtLeast(decision.signals[i].estimated_probability, trial.market.probability)
    /\ decision.signals[i].confidence >= trial.minc

\* C5 (as claimed): the signal acted on is the earliest whose divergence is
\* >= 0.05 and whose confidence is >= the configured minimum.
C5_EarliestMeetingBoth ==
    decision.analyzed =>
        IF decision.acted = 0
        THEN \A i \in DOMAIN decision.signals : ~C5_Meets(i)
        ELSE /\ C5_Meets(decision.acted)
             /\ \A j \in 1..(decision.acted - 1) : ~C5_Meets(j)

\* Signal i meets those thresholds and the strategy's own confidence bar
C5_Qualifies(i) ==
    /\ ProbDiffAtLeast(decision.signals[i].estimated_probability, trial.market.probability)
    /\ decision.signals[i].confidence >= ConfidencePct
    /\ decision.signals[i].confidence >= trial.minc

\* C5 (amended): the signal acted on is the earliest whose divergence
\* passes the strategy's floating-point test prob_diff >= 0.05 and whose
\* confidence is both >= 0.6, the threshold the strategy itself applies,
\* and >= the configured minimum; later signals are ignored.
C5_EarliestQualifying ==
    decision.analyzed =>
        IF decision.acted = 0
        THEN \A i \in DOMAIN decision.signals : ~C5_Qualifies(i)
        ELSE /\ C5_Qualifies(decision.acted)
             /\ \A j \in 1..(decision.acted - 1) : ~C5_Qualifies(j)

\* C5 witness: the first signal was acted on although the second qualifies
\* too, with a higher confidence.
C5_Witness ==
    /\ decision.acted = 1
    /\ Len(decision.signals) >= 2
    /\ C5_Qualifies(2)
    /\ decision.signals[2].confidence > decision.signals[1].confidence

\* C6: in simulation mode client.place_bet is never called.
C6_DryRunNeverSubmits ==
    dry_run => \A i \in MarketIds : submitCount[i] = 0

\* C6 witness: a simulated decision: a signal won, its stake cleared the
\* floor, and the bot stopped short of the submission.
C6_Witness ==
    /\ dry_run
    /\ \E i \in MarketIds : simulated[i] >= 1 /\ i \in processed_markets

\* C7 (as claimed): in live mode at most one submission is attempted per
\* identifier in the process lifetime.
C7_AtMostOneSubmission ==
    ~dry_run => \A i \in MarketIds : submitCount[i] <= 1

\* C8 (as claimed): after exactly 450 gate calls within one window, the next
\* gate call blocks until 60 seconds after the window start and returns
\* with the counter at 0 and the window start at the current time.
C8_BlocksAfterCeilingCalls ==
    [][gate' # gate =>
          ((gate.calls = Ceiling /\ now - last_request_time <= Window) =>
               /\ now' = last_request_time + Window
               /\ request_count' = 0
               /\ last_request_time' = now')]_vars

\* C8 (amended): a gate call that finds the request counter at 450 inside
\* the window blocks until 60 seconds after the window start and returns
\* with the counter at 0 and the window start at the current time; a gate
\* call that finds the counter below 450 does not block.  (The counter does
\* not count the call that opened the window.)
C8_BlocksAtCeiling ==
    [][gate' # gate =>
          IF request_count = Ceiling /\ now - last_request_time <= Window
          THEN /\ now' = last_request_time + Window
               /\ request_count' = 0
               /\ last_request_time' = now'
          ELSE request_count < Ceiling => now' = now]_vars

\* C8 witness: in a window opened by a reset, the call that found the
\* counter at 450 has slept and returned.
C8_Witness ==
    /\ gate.before = Ceiling
    /\ gate.start > 0
    /\ gate.slept > 0
    /\ request_count = 0
    /\ last_request_time = now

\* C9 (as claimed): no 60-second interval holds more than 500 requests.
C9_WithinBudget == RequestsInWindow <= Budget

\* C10 (as claimed): with an explicit limit N, run starts at most N cycles.
C10_AtMostNCycles ==
    max_iterations # None => iteration <= max_iterations[1]

\* A reply is malformed when its PROBABILITY or CONFIDENCE line is missing
\* or does not hold a number
Malformed(reply) == ~IsNumber(reply.prob) \/ ~IsNumber(reply.conf)

\* C13: analyze is total: for every market snapshot and every back-end
\* outcome it returns a signal and no exception comes out of it.
C13_AnalyzeTotal ==
    result.op = "analyze" => (~result.raised /\ Len(result.signal) = 1)

\* C13 witness: analyze returned a signal although the back-end call raised.
C13_Witness ==
    /\ result.op = "analyze"
    /\ call.reply.kind = "error"
    /\ Len(result.signal) = 1

\* C14: when the back-end call fails or the reply is malformed, the signal
\* has confidence exactly 0, should_bet false, the market's current
\* probability as estimate and the failure as rationale.
C14_FailureSignal ==
    (result.op = "analyze" /\ (call.reply.kind = "error" \/ Malformed(call.reply))) =>
        LET sig == result.signal[1]
        IN  /\ sig.confidence = 0
            /\ ~sig.should_bet
            /\ sig.estimated_probability = call.market.probability
            /\ sig.reasoning \in {"Error", "Parse error"}

\* C14 witness: a reply with a number on its PROBABILITY line, different
\* from the market's probability, and no usable CONFIDENCE line.
C14_Witness ==
    /\ result.op = "analyze"
    /\ call.reply.kind = "text"
    /\ IsNumber(call.reply.prob)
    /\ call.reply.prob[1] # call.market.probability
    /\ ~IsNumber(call.reply.conf)
    /\ result.signal[1].reasoning = "Parse error"

\* C15 (as claimed): every signal analyze returns has its confidence and
\* its estimated probability in [0, 1].
C15_SignalInRange ==
    result.op = "analyze" =>
        LET sig == result.signal[1]
        IN  /\ sig.confidence \in 0..100
            /\ sig.estimated_probability \in 0..100

\* Equality of two stakes
Same(a, b) == Reduce(a) = Reduce(b)

\* C16: calculate_kelly_bet returns exactly 0 whenever the estimated
\* probability is <= the market probability, for any bankroll, cap and
\* fraction.
C16_ZeroWithoutEdge ==
    (result.op = "kelly" /\ call.probability <= call.market_prob) =>
        (~result.raised /\ Same(result.size, Zero))

\* C16 witness: estimate equal to the market probability, inside (0, 1),
\* with a positive bankroll, cap and fraction.
C16_Witness ==
    /\ result.op = "kelly"
    /\ call.probability = call.market_prob
    /\ call.probability \in 1..99
    /\ call.bankroll > 0 /\ call.max_bet > 0 /\ call.fraction > 0
    /\ Same(result.size, Zero)

\* The unclamped fractional-Kelly value k*f*B, with b = (1-q)/q and
\* k = (b*p - (1-p))/b = (p - q)/(1 - q)
RawKelly(c) ==
    [num |-> (c.probability - c.market_prob) * c.fraction * c.bankroll,
     den |-> (100 - c.market_prob) * 100]

C17_Valid(c) ==
    /\ 0 < c.market_prob /\ c.market_prob < c.probability /\ c.probability < 100
    /\ c.bankroll >= 0 /\ c.max_bet >= 0 /\ c.fraction >= 0

\* C17: for 0 < q < p < 1 and bankroll, cap, fraction >= 0 the stake is
\* >= 0, at most the cap and at most the unclamped value k*f*B.
C17_StakeBounded ==
    (result.op = "kelly" /\ C17_Valid(call)) =>
        /\ ~result.raised
        /\ ~Less(result.size, Zero)
        /\ ~Less(Whole(call.max_bet), result.size)
        /\ ~Less(RawKelly(call), result.size)

\* C17 witness: the cap binds: the unclamped value is above the cap and the
\* stake is the cap.
C17_Witness ==
    /\ result.op = "kelly"
    /\ C17_Valid(call)
    /\ Less(Whole(call.max_bet), RawKelly(call))
    /\ call.max_bet > 0
    /\ Same(result.size, Whole(call.max_bet))

\* C18 (as claimed): with market probability 0 or 1 calculate_kelly_bet
\* does not crash: at q = 0 and 0 < p < 1 it returns the cap, at q = 1 it
\* returns 0.
C18_NoCrashAtBoundary ==
    (result.op = "kelly" /\ call.market_prob \in {0, 100}) =>
        /\ ~result.raised
        /\ (call.market_prob = 0 /\ call.probability \in 1..99) =>
               Same(result.size, Whole(call.max_bet))
        /\ call.market_prob = 100 => Same(result.size, Zero)

\* Positions at which run has ended
Ended == {"done", "stopped", "stopped_in_main"}

\* C11: a failure inside a poll cycle never ends the loop: from any
\* position inside cycle k the loop reaches the start of cycle k + 1,
\* unless an interruption arrives (caught or not) or the iteration limit
\* is exhausted.
C11_NextCycleStarts ==
    \A k \in 1..(MaxCycles - 1) :
        (iteration = k /\ pc \in {"fetch", "process", "cooldown", "failed"})
            ~> (\/ iteration = k + 1
                \/ interrupted_at # "none"
                \/ pc = "done")

\* C11 witness: a second cycle has started after a first one in which
\* _check_markets caught a failure.
C11_Witness ==
    /\ iteration = 2
    /\ pc = "fetch"
    /\ cycle_error # "none"
    /\ interrupted_at = "none"

\* C12 (as claimed): a KeyboardInterrupt at any position of run stops the
\* loop cleanly: no further cycle starts and the exception ends in an
\* except KeyboardInterrupt clause, so none propagates as a failure.
C12_InterruptStopsCleanly ==
    [][interrupted_at' # "none" =>
          (pc' \in {"stopped", "stopped_in_main"} /\ iteration' = iteration)]_vars

\* C19 (as claimed): started with no strategy registered, the bot still
\* runs its polling loop: the start neither fails nor stops before polling.
C19_PollsWithoutStrategies ==
    (strategies = <<>> /\ pc # "constructed") =>
        pc \in {"loop", "fetch", "process", "cooldown"} \cup Ended

\* C20 (as claimed): the pause that follows a cycle in which fetching or
\* processing raised is the 60-second cooldown.
C20_CooldownAfterFailure ==
    (pc = "loop" /\ iteration >= 1 /\ cycle_error # "none") => pause = Cooldown

\* C21 (as claimed): a failure while processing one market is contained to
\* that market: whatever a turn of the for loop does with the market at the
\* head of the cycle's listing, the markets listed after it stay queued
\* and are processed in the same cycle.
C21_RestStillProcessed ==
    [][(pc = "process" /\ new_markets # <<>>) =>
          new_markets' = Tail(new_markets)]_vars

\* C22 (as claimed): when the username lookup finds no user (GET /user
\* answers 404, or its body carries no id), get_user_markets raises the
\* ValueError "User ... not found" and issues no request for the listing.
C22_NotFoundIsDistinct ==
    (result.op = "get_user_markets" /\
     (call.user_status = 404 \/
      (~RaiseForStatus(call.user_status) /\ NoUserId(call.user_id)))) =>
        (result.raised = "ValueError" /\ result.requests = <<"user">>)

\* C23: every bet _place_bet submits carries an amount of at least 1 and
\* at most the bot's cap max_bet_amount, whatever the signal and the market
\* probability; with a cap below 1 nothing is submitted.
C23_AmountWithinFloorAndCap ==
    result.op = "place_bet" =>
        /\ \A i \in DOMAIN result.submitted :
              /\ ~Less(result.submitted[i].amount, Whole(MinBet))
              /\ ~Less(Whole(call.max_bet_amount), result.submitted[i].amount)
        /\ call.max_bet_amount < MinBet => result.submitted = <<>>

\* C23 witness: a live bet whose Kelly stake lies strictly between the
\* floor and the cap and is submitted as sized.
C23_Witness ==
    /\ result.op = "place_bet"
    /\ ~call.dry
    /\ Len(result.submitted) = 1
    /\ Less(Whole(MinBet), result.submitted[1].amount)
    /\ Less(result.submitted[1].amount, Whole(call.max_bet_amount))

\* C24: with strategies that set the direction by the shared rule, every
\* bet the bot places (submitted, or simulated in dry-run mode) is a YES
\* bet: a winning signal with direction NO is sized to a stake of 0 and
\* treated as no bet, and it is the only signal acted on for the market.
C24_OnlyYesIsBet ==
    decision.analyzed =>
        /\ decision.step \in {"submit", "dry_run"} => decision.outcome = "YES"
        /\ (decision.acted # 0 /\ decision.signals[decision.acted].outcome = "NO") =>
              /\ decision.step = "too_small"
              /\ decision.bet_size = Zero
              /\ decision.outcome = "NO"

\* C24 witness: the first strategy's signal says NO and clears the bar, the
\* second strategy's says YES and clears it too; the NO signal was acted
\* on, sized to 0 and dropped, and the YES signal was never acted on.
C24_Witness ==
    /\ decision.analyzed
    /\ Len(decision.signals) >= 2
    /\ decision.acted = 1
    /\ decision.signals[1].outcome = "NO"
    /\ decision.signals[2].outcome = "YES"
    /\ decision.signals[2].should_bet
    /\ decision.signals[2].confidence >= trial.minc
    /\ decision.step = "too_small"
====
